---------------------------- MODULE Spec2Model ----------------------------
(***************************************************************************)
(* A model of src/src/App.js: the plot-diagram form.  The file holds two   *)
(* versions of the component, PlotDiagramApp (lines 33-256) and App        *)
(* (lines 267-439), each with its own PlotDiagramSVG.  Every number of the *)
(* program is a JavaScript Number, so the model carries IEEE 754 binary64  *)
(* values and rounds every arithmetic result the way the engine does.      *)
(***************************************************************************)
EXTENDS Integers, Sequences, FiniteSets, TLC

(***************************************************************************)
(* Natural numbers of any size: little-endian sequences of limbs in base   *)
(* 2^15 with no leading zero limb (<<>> is 0).  They carry the 53-bit      *)
(* significands, which do not fit TLC's 32-bit integers.                   *)
(***************************************************************************)
BASE == 2^15

RECURSIVE NatBitLen(_)
NatBitLen(n) == IF n = 0 THEN 0 ELSE 1 + NatBitLen(n \div 2)

LIMB_BITS == NatBitLen(BASE) - 1

RECURSIVE BNorm(_)
BNorm(a) ==
  IF a = <<>> THEN <<>>
  ELSE IF a[Len(a)] = 0 THEN BNorm(SubSeq(a, 1, Len(a) - 1))
  ELSE a

RECURSIVE BFromNat(_)
BFromNat(n) == IF n = 0 THEN <<>> ELSE <<n % BASE>> \o BFromNat(n \div BASE)

RECURSIVE BAddC(_, _, _)
BAddC(a, b, c) ==
  IF a = <<>> /\ b = <<>> THEN (IF c = 0 THEN <<>> ELSE <<c>>)
  ELSE LET x == IF a = <<>> THEN 0 ELSE a[1]
           y == IF b = <<>> THEN 0 ELSE b[1]
           t == x + y + c
       IN  <<t % BASE>> \o BAddC(IF a = <<>> THEN <<>> ELSE Tail(a),
                                 IF b = <<>> THEN <<>> ELSE Tail(b),
                                 t \div BASE)

BAdd(a, b) == BAddC(a, b, 0)

\* a - b for a >= b
RECURSIVE BSubC(_, _, _)
BSubC(a, b, c) ==
  IF a = <<>> THEN <<>>
  ELSE LET y == IF b = <<>> THEN 0 ELSE b[1]
           t == a[1] - y - c
       IN  <<IF t < 0 THEN t + BASE ELSE t>>
             \o BSubC(Tail(a), IF b = <<>> THEN <<>> ELSE Tail(b),
                      IF t < 0 THEN 1 ELSE 0)

BSub(a, b) == BNorm(BSubC(a, b, 0))

\* -1, 0 or 1 as a < b, a = b, a > b
RECURSIVE BCmpFrom(_, _, _)
BCmpFrom(a, b, i) ==
  IF i = 0 THEN 0
  ELSE IF a[i] < b[i] THEN -1
  ELSE IF a[i] > b[i] THEN 1
  ELSE BCmpFrom(a, b, i - 1)

BCmp(a, b) ==
  IF Len(a) < Len(b) THEN -1
  ELSE IF Len(a) > Len(b) THEN 1
  ELSE BCmpFrom(a, b, Len(a))

\* a * k for 0 <= k < BASE
RECURSIVE BMulSmallC(_, _, _)
BMulSmallC(a, k, c) ==
  IF a = <<>> THEN (IF c = 0 THEN <<>> ELSE <<c>>)
  ELSE LET t == a[1] * k + c
       IN  <<t % BASE>> \o BMulSmallC(Tail(a), k, t \div BASE)

BMulSmall(a, k) == IF k = 0 THEN <<>> ELSE BMulSmallC(a, k, 0)

RECURSIVE BMul(_, _)
BMul(a, b) ==
  IF a = <<>> \/ b = <<>> THEN <<>>
  ELSE BAdd(BMulSmall(a, b[1]), BNorm(<<0>> \o BMul(a, Tail(b))))

\* floor(a / k) for 0 < k < BASE, limbs taken from the top
RECURSIVE BDivSmallFrom(_, _, _, _)
BDivSmallFrom(a, k, i, r) ==
  IF i = 0 THEN <<>>
  ELSE LET cur == r * BASE + a[i]
       IN  BDivSmallFrom(a, k, i - 1, cur % k) \o <<cur \div k>>

BDivSmall(a, k) == BNorm(BDivSmallFrom(a, k, Len(a), 0))

Zeros(n) == [i \in 1..n |-> 0]

\* a * 2^n
BShl(a, n) ==
  IF a = <<>> THEN <<>>
  ELSE Zeros(n \div LIMB_BITS) \o BMulSmall(a, 2^(n % LIMB_BITS))

\* floor(a / 2^n)
BShr(a, n) ==
  IF Len(a) <= n \div LIMB_BITS THEN <<>>
  ELSE BDivSmall(SubSeq(a, n \div LIMB_BITS + 1, Len(a)), 2^(n % LIMB_BITS))

BBitLen(a) ==
  IF a = <<>> THEN 0 ELSE LIMB_BITS * (Len(a) - 1) + NatBitLen(a[Len(a)])

BIsOdd(a) == a # <<>> /\ a[1] % 2 = 1

RECURSIVE NatTrailingZeros(_)
NatTrailingZeros(n) == IF n % 2 = 1 THEN 0 ELSE 1 + NatTrailingZeros(n \div 2)

\* the number of trailing zero bits of a > 0
RECURSIVE BTrailingZeros(_)
BTrailingZeros(a) ==
  IF a[1] = 0 THEN LIMB_BITS + BTrailingZeros(Tail(a))
  ELSE NatTrailingZeros(a[1])

\* the largest t < BASE with d * t <= cur, for cur < d * BASE: bit j downwards
RECURSIVE QuotLimb(_, _, _, _)
QuotLimb(cur, d, t, j) ==
  IF j < 0 THEN t
  ELSE IF BCmp(BMulSmall(d, t + 2^j), cur) <= 0
         THEN QuotLimb(cur, d, t + 2^j, j - 1)
         ELSE QuotLimb(cur, d, t, j - 1)

\* long division, limb i of n downwards, r the running remainder
RECURSIVE BDivModFrom(_, _, _, _)
BDivModFrom(n, d, i, r) ==
  IF i = 0 THEN <<<<>>, r>>
  ELSE LET cur == BNorm(<<n[i]>> \o r)
           t == QuotLimb(cur, d, 0, LIMB_BITS - 1)
           r2 == BSub(cur, BMulSmall(d, t))
           rest == BDivModFrom(n, d, i - 1, r2)
       IN  \* the test evaluates r2 before the next limb is taken
           IF Len(r2) >= 0 THEN <<rest[1] \o <<t>>, rest[2]>> ELSE <<>>

\* <<floor(n / d), n mod d>> for d > 0
BDivMod(n, d) ==
  IF Len(d) = 1
    THEN LET q == BDivSmall(n, d[1]) IN <<q, BSub(n, BMulSmall(q, d[1]))>>
    ELSE LET qr == BDivModFrom(n, d, Len(n), <<>>) IN <<BNorm(qr[1]), qr[2]>>

(***************************************************************************)
(* JavaScript Numbers.  A value is NaN, an infinity, or the finite number  *)
(* s * m * 2^e with m a natural number that is odd (or 0, with s = 1 and   *)
(* e = 0), so that equal numbers are equal records.  The exponent range is *)
(* not modelled: the magnitudes that can be entered (EnteredTexts) keep    *)
(* every result far from overflow and underflow.  Zero carries no sign: no *)
(* negative zero reaches a division or a comparison in this program.       *)
(***************************************************************************)
PRECISION == 53

NaN == [k |-> "nan", s |-> 1, m |-> <<>>, e |-> 0]

Infinity == [k |-> "inf", s |-> 1, m |-> <<>>, e |-> 0]

NegInfinity == [k |-> "inf", s |-> -1, m |-> <<>>, e |-> 0]

Zero == [k |-> "fin", s |-> 1, m |-> <<>>, e |-> 0]

IsNaN(a) == a.k = "nan"

IsInf(a) == a.k = "inf"

IsFinite(a) == a.k = "fin"

IsZero(a) == a.k = "fin" /\ a.m = <<>>

\* the finite number s * m * 2^e, exactly
Dyadic(s, m, e) ==
  IF m = <<>> THEN Zero
  ELSE LET tz == BTrailingZeros(m)
       IN  [k |-> "fin", s |-> s, m |-> BShr(m, tz), e |-> e + tz]

\* the double nearest to s * m * 2^e, ties to the even significand
RoundNearestEven(s, m, e) ==
  LET len == BBitLen(m) IN
  IF len <= PRECISION THEN Dyadic(s, m, e)
  ELSE LET d    == len - PRECISION
           q    == BShr(m, d)
           rem  == BSub(m, BShl(q, d))
           c    == BCmp(rem, BShl(<<1>>, d - 1))
           up   == c > 0 \/ (c = 0 /\ BIsOdd(q))
       IN  Dyadic(s, IF up THEN BAdd(q, <<1>>) ELSE q, e + d)

\* an integer of the model as a Number
Num(n) == IF n < 0 THEN Dyadic(-1, BFromNat(-n), 0) ELSE Dyadic(1, BFromNat(n), 0)

Neg(a) == IF a.k = "nan" \/ IsZero(a) THEN a ELSE [a EXCEPT !.s = -a.s]

(***************************************************************************)
(* Exact arithmetic on finite values: the real-number sum, product and     *)
(* order, with no rounding.                                                *)
(***************************************************************************)
ExactAdd(a, b) ==
  LET e  == IF a.e < b.e THEN a.e ELSE b.e
      ma == BShl(a.m, a.e - e)
      mb == BShl(b.m, b.e - e)
      c  == BCmp(ma, mb)
  IN  IF IsZero(a) THEN b
      ELSE IF IsZero(b) THEN a
      ELSE IF a.s = b.s THEN Dyadic(a.s, BAdd(ma, mb), e)
      ELSE IF c = 0 THEN Zero
      ELSE IF c > 0 THEN Dyadic(a.s, BSub(ma, mb), e)
      ELSE Dyadic(b.s, BSub(mb, ma), e)

ExactSub(a, b) == ExactAdd(a, Neg(b))

ExactMul(a, b) == Dyadic(a.s * b.s, BMul(a.m, b.m), a.e + b.e)

\* -1, 0 or 1 as a < b, a = b, a > b
ExactCmp(a, b) ==
  LET d == ExactSub(a, b)
  IN  IF IsZero(d) THEN 0 ELSE d.s

\* 2^n for any integer n
Pow2(n) == [k |-> "fin", s |-> 1, m |-> <<1>>, e |-> n]

(***************************************************************************)
(* The operators of the language on Numbers.                               *)
(***************************************************************************)
\* a + b
FAdd(a, b) ==
  IF IsNaN(a) \/ IsNaN(b) THEN NaN
  ELSE IF IsInf(a) /\ IsInf(b) THEN (IF a.s = b.s THEN a ELSE NaN)
  ELSE IF IsInf(a) THEN a
  ELSE IF IsInf(b) THEN b
  ELSE LET x == ExactAdd(a, b) IN RoundNearestEven(x.s, x.m, x.e)

\* a - b
FSub(a, b) == FAdd(a, Neg(b))

\* a * b
FMul(a, b) ==
  IF IsNaN(a) \/ IsNaN(b) THEN NaN
  ELSE IF IsInf(a) \/ IsInf(b)
    THEN (IF IsZero(a) \/ IsZero(b) THEN NaN
          ELSE [k |-> "inf", s |-> a.s * b.s, m |-> <<>>, e |-> 0])
  ELSE RoundNearestEven(a.s * b.s, BMul(a.m, b.m), a.e + b.e)

\* a / b: the quotient of the significands is taken to PRECISION + 2 bits or
\* more and a sticky bit for the remainder, then rounded once
FDiv(a, b) ==
  IF IsNaN(a) \/ IsNaN(b) THEN NaN
  ELSE IF IsInf(a) THEN (IF IsInf(b) THEN NaN
                         ELSE [k |-> "inf", s |-> a.s * b.s, m |-> <<>>, e |-> 0])
  ELSE IF IsInf(b) THEN Zero
  ELSE IF IsZero(b) THEN (IF IsZero(a) THEN NaN
                          ELSE [k |-> "inf", s |-> a.s, m |-> <<>>, e |-> 0])
  ELSE IF IsZero(a) THEN Zero
  ELSE LET sh == PRECISION + 2 + BBitLen(b.m)
           qr == BDivMod(BShl(a.m, sh), b.m)
           m2 == BAdd(BAdd(qr[1], qr[1]), IF qr[2] = <<>> THEN <<>> ELSE <<1>>)
       IN  RoundNearestEven(a.s * b.s, m2, a.e - b.e - sh - 1)

\* a < b, a <= b, a > b: false when either is NaN
FLt(a, b) ==
  IF IsNaN(a) \/ IsNaN(b) THEN FALSE
  ELSE IF IsInf(a) THEN a.s < 0 /\ b # a
  ELSE IF IsInf(b) THEN b.s > 0
  ELSE ExactCmp(a, b) < 0

FLe(a, b) == ~IsNaN(a) /\ ~IsNaN(b) /\ (a = b \/ FLt(a, b))

FGt(a, b) == FLt(b, a)

\* Math.max(a, b), Math.min(a, b): NaN when either is NaN
MathMax(a, b) == IF IsNaN(a) \/ IsNaN(b) THEN NaN ELSE IF FLt(a, b) THEN b ELSE a

MathMin(a, b) == IF IsNaN(a) \/ IsNaN(b) THEN NaN ELSE IF FLt(b, a) THEN b ELSE a

\* x || 0 on a Number: 0 and NaN are falsy
OrZero(a) == IF IsNaN(a) \/ IsZero(a) THEN Zero ELSE a

(***************************************************************************)
(* parseFloat on the text of an input element.  A text is a sequence of    *)
(* one-character strings over digits, "-", "+", "." and letters other than *)
(* e, E and I; white space, exponents and "Infinity" are not entered.  The *)
(* longest prefix that is a decimal literal is converted, correctly        *)
(* rounded; a text with no such prefix gives NaN.                          *)
(***************************************************************************)
DigitChars == <<"0", "1", "2", "3", "4", "5", "6", "7", "8", "9">>

IsDigit(c) == \E i \in 1..10 : DigitChars[i] = c

DigitValue(c) == (CHOOSE i \in 1..10 : DigitChars[i] = c) - 1

\* the end of the run of digits of text that starts at position p
RECURSIVE DigitsEnd(_, _)
DigitsEnd(text, p) ==
  IF p <= Len(text) /\ IsDigit(text[p]) THEN DigitsEnd(text, p + 1) ELSE p

\* the natural number written by the digits text[p .. q - 1], after acc
RECURSIVE DigitsNat(_, _, _, _)
DigitsNat(text, p, q, acc) ==
  IF p >= q THEN acc
  ELSE DigitsNat(text, p + 1, q,
                 BAdd(BMulSmall(acc, 10), BFromNat(DigitValue(text[p]))))

RECURSIVE BPow10(_)
BPow10(n) == IF n = 0 THEN <<1>> ELSE BMulSmall(BPow10(n - 1), 10)

DecimalPrefix(text) ==
  LET signed  == text # <<>> /\ text[1] \in {"-", "+"}
      sgn     == IF signed /\ text[1] = "-" THEN -1 ELSE 1
      p0      == IF signed THEN 2 ELSE 1
      p1      == DigitsEnd(text, p0)
      dot     == p1 <= Len(text) /\ text[p1] = "."
      p2      == IF dot THEN DigitsEnd(text, p1 + 1) ELSE p1
      fracLen == IF dot THEN p2 - (p1 + 1) ELSE 0
      intPart == DigitsNat(text, p0, p1, <<>>)
      allDig  == IF dot THEN DigitsNat(text, p1 + 1, p2, intPart) ELSE intPart
  IN  IF p1 = p0 /\ fracLen = 0 THEN NaN
      ELSE FDiv(Dyadic(sgn, allDig, 0), Dyadic(1, BPow10(fracLen), 0))

\* the texts a user enters in a number input
EnteredTexts ==
  { <<>>, <<"a", "b", "c">>, <<"-", "5">>, <<"4", "5">>,
    <<"7", ".", "5", "x">> }

\* the conversions of the entered texts, made once
ParsedTexts == [text \in EnteredTexts |-> DecimalPrefix(text)]

parseFloat(text) ==
  IF text \in EnteredTexts THEN ParsedTexts[text] ELSE DecimalPrefix(text)

(***************************************************************************)
(* The two components.  PlotDiagramApp keeps the ten dimensions in inputs  *)
(* and the two toggles in elements; App keeps the toggles and the          *)
(* staircase fields in inputs as well.                                     *)
(***************************************************************************)
Components == {"PlotDiagramApp", "App"}

\* Object.keys(inputs) of PlotDiagramApp, each rendered as a number input
NumericKeys ==
  <<"plotWidth", "plotLength", "roadWidth", "parkingWidth", "parkingLength",
    "setbackFront", "setbackBack", "setbackLeft", "setbackRight", "floors">>

NumericKeySet == {NumericKeys[i] : i \in 1..Len(NumericKeys)}

\* the check boxes of App and the buttons of PlotDiagramApp
CheckboxKeys == {"addParking", "addStaircase"}

ElementKeys == {"parking", "staircase"}

\* the fields of App that no input element is rendered for
StairKeys == {"stairWidth", "stairLength", "stairX", "stairY"}

InitialInputs ==
  [plotWidth |-> Num(30), plotLength |-> Num(60), roadWidth |-> Num(30),
   parkingWidth |-> Num(18), parkingLength |-> Num(18),
   setbackFront |-> Num(10), setbackBack |-> Num(5),
   setbackLeft |-> Num(5), setbackRight |-> Num(5), floors |-> Num(5)]

InitialElements == [parking |-> TRUE, staircase |-> FALSE]

AppInitialInputs ==
  [plotWidth |-> Num(30), plotLength |-> Num(60), roadWidth |-> Num(30),
   parkingWidth |-> Num(18), parkingLength |-> Num(18),
   setbackFront |-> Num(10), setbackBack |-> Num(5),
   setbackLeft |-> Num(5), setbackRight |-> Num(5), floors |-> Num(5),
   addParking |-> TRUE, addStaircase |-> TRUE,
   stairWidth |-> Num(6), stairLength |-> Num(10),
   stairX |-> Num(0), stairY |-> Num(0)]

\* App has no elements state
NoElements == [x \in {} |-> TRUE]

\* a variant of ClampedNumber without Math.max
ClampedNumberNoMax(value) == OrZero(parseFloat(value))

\* Math.max(0, parseFloat(value) || 0)
ClampedNumber(value) == MathMax(Zero, OrZero(parseFloat(value)))

\* a variant of handleChange that spreads the initial inputs, not the
\* current ones
handleChangeStale(in, name, value) ==
  [InitialInputs EXCEPT ![name] = ClampedNumber(value)]

\* PlotDiagramApp.handleChange: the next inputs for the event {name, value}
handleChange(in, name, value) ==
  [in EXCEPT ![name] = ClampedNumber(value)]

\* App.handleChange: the next inputs for the event {name, value, type, checked}
AppHandleChange(in, name, value, type, checked) ==
  [in EXCEPT ![name] = IF type = "checkbox" THEN checked
                       ELSE ClampedNumber(value)]

\* PlotDiagramApp.handleToggle: the next elements
handleToggle(el, name) == [el EXCEPT ![name] = ~el[name]]

\* a variant of calculations without the two Math.max clamps
calculationsNoClamp(in) ==
  LET plotArea        == FMul(in.plotWidth, in.plotLength)
      buildableWidth  == FSub(FSub(in.plotWidth, in.setbackLeft), in.setbackRight)
      buildableLength == FSub(FSub(in.plotLength, in.setbackFront), in.setbackBack)
      groundFloorArea == FMul(buildableWidth, buildableLength)
      totalBUA        == FMul(groundFloorArea, in.floors)
      groundCoverage  == IF FGt(plotArea, Zero)
                           THEN FMul(FDiv(groundFloorArea, plotArea), Num(100))
                           ELSE Zero
      far             == IF FGt(plotArea, Zero) THEN FDiv(totalBUA, plotArea)
                         ELSE Zero
  IN  [plotArea |-> plotArea, totalBUA |-> totalBUA,
       groundCoverage |-> groundCoverage, far |-> far,
       buildableWidth |-> buildableWidth, buildableLength |-> buildableLength]

\* a variant of calculations without the plotArea > 0 tests
calculationsNoAreaTest(in) ==
  LET plotArea             == FMul(in.plotWidth, in.plotLength)
      validBuildableWidth  == MathMax(Zero, FSub(FSub(in.plotWidth, in.setbackLeft),
                                                 in.setbackRight))
      validBuildableLength == MathMax(Zero, FSub(FSub(in.plotLength, in.setbackFront),
                                                 in.setbackBack))
      groundFloorArea      == FMul(validBuildableWidth, validBuildableLength)
      totalBUA             == FMul(groundFloorArea, in.floors)
  IN  [plotArea |-> plotArea, totalBUA |-> totalBUA,
       groundCoverage |-> FMul(FDiv(groundFloorArea, plotArea), Num(100)),
       far |-> FDiv(totalBUA, plotArea),
       buildableWidth |-> validBuildableWidth,
       buildableLength |-> validBuildableLength]

\* a variant of calculations whose groundCoverage is a fraction, not a
\* percentage
calculationsNoPercent(in) ==
  LET plotArea             == FMul(in.plotWidth, in.plotLength)
      validBuildableWidth  == MathMax(Zero, FSub(FSub(in.plotWidth, in.setbackLeft),
                                                 in.setbackRight))
      validBuildableLength == MathMax(Zero, FSub(FSub(in.plotLength, in.setbackFront),
                                                 in.setbackBack))
      groundFloorArea      == FMul(validBuildableWidth, validBuildableLength)
      totalBUA             == FMul(groundFloorArea, in.floors)
  IN  [plotArea |-> plotArea, totalBUA |-> totalBUA,
       groundCoverage |-> IF FGt(plotArea, Zero) THEN FDiv(groundFloorArea, plotArea)
                          ELSE Zero,
       far |-> IF FGt(plotArea, Zero) THEN FDiv(totalBUA, plotArea) ELSE Zero,
       buildableWidth |-> validBuildableWidth,
       buildableLength |-> validBuildableLength]

\* PlotDiagramApp.calculations: the value useMemo returns for inputs
calculations(in) ==
  LET plotArea             == FMul(in.plotWidth, in.plotLength)
      buildableWidth       == FSub(FSub(in.plotWidth, in.setbackLeft), in.setbackRight)
      buildableLength      == FSub(FSub(in.plotLength, in.setbackFront), in.setbackBack)
      validBuildableWidth  == MathMax(Zero, buildableWidth)
      validBuildableLength == MathMax(Zero, buildableLength)
      groundFloorArea      == FMul(validBuildableWidth, validBuildableLength)
      totalBUA             == FMul(groundFloorArea, in.floors)
      groundCoverage       == IF FGt(plotArea, Zero)
                                THEN FMul(FDiv(groundFloorArea, plotArea), Num(100))
                                ELSE Zero
      far                  == IF FGt(plotArea, Zero) THEN FDiv(totalBUA, plotArea)
                              ELSE Zero
  IN  [plotArea |-> plotArea, totalBUA |-> totalBUA,
       groundCoverage |-> groundCoverage, far |-> far,
       buildableWidth |-> validBuildableWidth,
       buildableLength |-> validBuildableLength]

\* App.calculations
AppCalculations(in) ==
  LET plotArea        == FMul(in.plotWidth, in.plotLength)
      buildableWidth  == MathMax(Zero, FSub(FSub(in.plotWidth, in.setbackLeft),
                                            in.setbackRight))
      buildableLength == MathMax(Zero, FSub(FSub(in.plotLength, in.setbackFront),
                                            in.setbackBack))
      groundFloorArea == FMul(buildableWidth, buildableLength)
      totalBUA        == FMul(groundFloorArea, in.floors)
      groundCoverage  == IF FGt(plotArea, Zero)
                           THEN FMul(FDiv(groundFloorArea, plotArea), Num(100))
                           ELSE Zero
      far             == IF FGt(plotArea, Zero) THEN FDiv(totalBUA, plotArea)
                         ELSE Zero
  IN  [plotArea |-> plotArea, totalBUA |-> totalBUA,
       groundCoverage |-> groundCoverage, far |-> far,
       buildableWidth |-> buildableWidth, buildableLength |-> buildableLength]

(***************************************************************************)
(* PlotDiagramSVG.  The result is the placeholder div or the svg element   *)
(* with its width, its height and its rect children in document order; the *)
(* text and path children carry no rectangle and are left out.  The rect   *)
(* children are given by two operators per component: which rects the JSX  *)
(* emits, and the attributes of each.                                      *)
(***************************************************************************)
PADDING == 20

MAX_SIZE == 500

totalWidthFt(in) == in.plotWidth

totalHeightFt(in) == FAdd(in.plotLength, in.roadWidth)

\* a variant of scale that takes the larger of the two ratios
scaleMathMax(in) ==
  MathMax(FDiv(Num(MAX_SIZE), totalWidthFt(in)),
          FDiv(Num(MAX_SIZE), totalHeightFt(in)))

\* Math.min(MAX_SIZE / totalWidthFt, MAX_SIZE / totalHeightFt)
scale(in) ==
  MathMin(FDiv(Num(MAX_SIZE), totalWidthFt(in)),
          FDiv(Num(MAX_SIZE), totalHeightFt(in)))

Rect(id, x, y, w, h) == [id |-> id, x |-> x, y |-> y, width |-> w, height |-> h]

Placeholder == [tag |-> "div", width |-> Zero, height |-> Zero, rects |-> <<>>]

Svg(w, h, rects) == [tag |-> "svg", width |-> w, height |-> h, rects |-> rects]

svgWidth(in) == FAdd(FMul(totalWidthFt(in), scale(in)), Num(PADDING * 2))

svgHeight(in) == FAdd(FMul(totalHeightFt(in), scale(in)), Num(PADDING * 2))

\* the test of the first PlotDiagramSVG that returns the placeholder
InvalidExtent(in) ==
  FLe(totalWidthFt(in), Zero) \/ FLe(totalHeightFt(in), Zero)

\* a variant of RectChildren that tests the parking toggle only
RectChildrenToggleOnly(in, el) ==
  <<"plot", "road", "buildable">>
  \o (IF el.parking THEN <<"parking">> ELSE <<>>)
  \o (IF el.staircase THEN <<"staircase">> ELSE <<>>)

\* the rect children the first PlotDiagramSVG emits, in document order
RectChildren(in, el) ==
  <<"plot", "road", "buildable">>
  \o (IF el.parking /\ FGt(in.parkingWidth, Zero) /\ FGt(in.parkingLength, Zero)
        THEN <<"parking">> ELSE <<>>)
  \o (IF el.staircase THEN <<"staircase">> ELSE <<>>)

\* the attributes of the rect child id of the first PlotDiagramSVG
RectAttributes(in, buildable, id) ==
  LET sc     == scale(in)
      pW     == FMul(in.plotWidth, sc)
      pL     == FMul(in.plotLength, sc)
      rW     == FMul(in.roadWidth, sc)
      sB     == FMul(in.setbackBack, sc)
      sL     == FMul(in.setbackLeft, sc)
      bW     == FMul(buildable.buildableWidth, sc)
      bL     == FMul(buildable.buildableLength, sc)
      parkW  == FMul(in.parkingWidth, sc)
      parkL  == FMul(in.parkingLength, sc)
      parkX  == FAdd(sL, FDiv(FSub(bW, parkW), Num(2)))
      parkY  == FSub(FAdd(sB, bL), parkL)
      stairW == FMul(Num(8), sc)
      stairL == FMul(Num(12), sc)
      stairX == FAdd(sL, Num(10))
      stairY == FAdd(sB, Num(10))
  IN  CASE id = "plot"      -> Rect(id, Zero, Zero, pW, pL)
        [] id = "road"      -> Rect(id, Zero, pL, pW, rW)
        [] id = "buildable" -> Rect(id, sL, sB, bW, bL)
        [] id = "parking"   -> Rect(id, parkX, parkY, parkW, parkL)
        [] id = "staircase" -> Rect(id, stairX, stairY, stairW, stairL)

\* the first PlotDiagramSVG, rendered by PlotDiagramApp
PlotDiagramSVG(in, buildable, el) ==
  IF InvalidExtent(in) THEN Placeholder
  ELSE LET ids == RectChildren(in, el)
       IN  Svg(svgWidth(in), svgHeight(in),
               [i \in 1..Len(ids) |-> RectAttributes(in, buildable, ids[i])])

\* the rect children the second PlotDiagramSVG emits, in document order
AppRectChildren(in) ==
  <<"plot", "road", "buildable">>
  \o (IF in.addParking /\ FGt(in.parkingWidth, Zero) /\ FGt(in.parkingLength, Zero)
        THEN <<"parking">> ELSE <<>>)
  \o (IF in.addStaircase /\ FGt(in.stairWidth, Zero) /\ FGt(in.stairLength, Zero)
        THEN <<"staircase">> ELSE <<>>)

\* the attributes of the rect child id of the second PlotDiagramSVG
AppRectAttributes(in, buildable, id) ==
  LET sc == scale(in)
      pW == FMul(in.plotWidth, sc)
      pL == FMul(in.plotLength, sc)
      rW == FMul(in.roadWidth, sc)
      sB == FMul(in.setbackBack, sc)
      sL == FMul(in.setbackLeft, sc)
      bW == FMul(buildable.buildableWidth, sc)
      bL == FMul(buildable.buildableLength, sc)
  IN  CASE id = "plot"      -> Rect(id, Zero, Zero, pW, pL)
        [] id = "road"      -> Rect(id, Zero, pL, pW, rW)
        [] id = "buildable" -> Rect(id, sL, sB, bW, bL)
        [] id = "parking"   ->
             Rect(id, FAdd(sL, FDiv(FSub(bW, FMul(in.parkingWidth, sc)), Num(2))),
                  FSub(FAdd(sB, bL), FMul(in.parkingLength, sc)),
                  FMul(in.parkingWidth, sc), FMul(in.parkingLength, sc))
        [] id = "staircase" ->
             Rect(id, FMul(in.stairX, sc), FMul(in.stairY, sc),
                  FMul(in.stairWidth, sc), FMul(in.stairLength, sc))

\* the second PlotDiagramSVG, rendered by App: it has no placeholder branch
AppPlotDiagramSVG(in, buildable) ==
  LET ids == AppRectChildren(in)
  IN  Svg(svgWidth(in), svgHeight(in),
          [i \in 1..Len(ids) |-> AppRectAttributes(in, buildable, ids[i])])

(***************************************************************************)
(* The state machine: one mounted component, the user's edits and clicks,  *)
(* and the exports in flight.                                              *)
(***************************************************************************)
VARIABLES
  component,       \* which of the two default exports is rendered
  inputs,          \* useState: the Dimensional Input Set
  elements,        \* useState of PlotDiagramApp: the two toggles
  diagramRef,      \* diagramRef.current: "null" until the div is committed
  pending,         \* handleExport calls suspended at await html2canvas(...)
  rasterRequests,  \* calls of html2canvas made so far
  downloads,       \* link.download of every link.click() so far
  rejections,      \* handleExport promises rejected (nothing handles them)
  exportCalls,     \* calls of handleExport so far
  steps,           \* user events so far: edits, toggles and export clicks
  lastStored,      \* history: per numeric field, the clamped value of the
                   \* last text entered in it, or Never
  flips            \* history: per toggle, the parity of the clicks on it

vars == <<component, inputs, elements, diagramRef, pending, rasterRequests,
          downloads, rejections, exportCalls, steps, lastStored, flips>>

exportVars == <<pending, rasterRequests, downloads, rejections, exportCalls>>

MaxSteps == 2

Never == [k |-> "never", s |-> 1, m |-> <<>>, e |-> 0]

FILENAME == "plot-diagram.png"

Init ==
  /\ component \in Components
  /\ inputs = IF component = "PlotDiagramApp" THEN InitialInputs
              ELSE AppInitialInputs
  /\ elements = IF component = "PlotDiagramApp" THEN InitialElements
                ELSE NoElements
  /\ diagramRef = "null"
  /\ pending = 0
  /\ rasterRequests = 0
  /\ downloads = <<>>
  /\ rejections = 0
  /\ exportCalls = 0
  /\ steps = 0
  /\ lastStored = [f \in NumericKeySet |-> Never]
  /\ flips = [t \in ElementKeys |-> 0]

\* React commits the first render: <div ref={diagramRef}> is attached
Mount ==
  /\ diagramRef = "null"
  /\ diagramRef' = "div"
  /\ UNCHANGED <<component, inputs, elements, exportVars, steps, lastStored, flips>>

\* onChange of the number input named name, with the text value
HandleChange(name, value) ==
  /\ diagramRef = "div"
  /\ steps < MaxSteps
  /\ inputs' = IF component = "PlotDiagramApp"
                 THEN handleChange(inputs, name, value)
                 ELSE AppHandleChange(inputs, name, value, "number", FALSE)
  /\ steps' = steps + 1
  /\ lastStored' = [lastStored EXCEPT ![name] = ClampedNumber(value)]
  /\ UNCHANGED <<component, elements, diagramRef, exportVars, flips>>

\* onClick of the parking or staircase button of PlotDiagramApp
HandleToggle(name) ==
  /\ diagramRef = "div"
  /\ component = "PlotDiagramApp"
  /\ steps < MaxSteps
  /\ steps' = steps + 1
  /\ elements' = handleToggle(elements, name)
  /\ flips' = [flips EXCEPT ![name] = 1 - flips[name]]
  /\ UNCHANGED <<component, inputs, diagramRef, exportVars, lastStored>>

\* onChange of a check box of App: checked is the opposite of what is shown
HandleCheckbox(name) ==
  /\ diagramRef = "div"
  /\ component = "App"
  /\ steps < MaxSteps
  /\ steps' = steps + 1
  /\ inputs' = AppHandleChange(inputs, name, "on", "checkbox", ~inputs[name])
  /\ flips' = LET t == IF name = "addParking" THEN "parking" ELSE "staircase"
              IN  [flips EXCEPT ![t] = 1 - flips[t]]
  /\ UNCHANGED <<component, elements, diagramRef, exportVars, lastStored>>

\* a variant of HandleExport without the test of diagramRef.current
HandleExportNoRefTest ==
  /\ steps < MaxSteps
  /\ steps' = steps + 1
  /\ exportCalls' = exportCalls + 1
  /\ rasterRequests' = rasterRequests + 1
  /\ pending' = pending + 1
  /\ UNCHANGED <<component, inputs, elements, diagramRef, downloads, rejections,
                 lastStored, flips>>

\* handleExport up to its await: nothing when the surface is missing, else
\* one html2canvas call
HandleExport ==
  /\ steps < MaxSteps
  /\ steps' = steps + 1
  /\ exportCalls' = exportCalls + 1
  /\ IF diagramRef = "null"
       THEN UNCHANGED <<pending, rasterRequests>>
       ELSE /\ rasterRequests' = rasterRequests + 1
            /\ pending' = pending + 1
  /\ UNCHANGED <<component, inputs, elements, diagramRef, downloads, rejections,
                 lastStored, flips>>

\* html2canvas resolves with a canvas: the rest of handleExport runs
ExportResolved ==
  /\ pending > 0
  /\ pending' = pending - 1
  /\ downloads' = Append(downloads, FILENAME)
  /\ UNCHANGED <<component, inputs, elements, diagramRef, rasterRequests,
                 rejections, exportCalls, steps, lastStored, flips>>

\* html2canvas rejects: the await throws and handleExport's promise rejects
ExportRejected ==
  /\ pending > 0
  /\ pending' = pending - 1
  /\ rejections' = rejections + 1
  /\ UNCHANGED <<component, inputs, elements, diagramRef, rasterRequests,
                 downloads, exportCalls, steps, lastStored, flips>>

Next ==
  \/ Mount
  \/ \E name \in NumericKeySet, value \in EnteredTexts : HandleChange(name, value)
  \/ \E name \in ElementKeys : HandleToggle(name)
  \/ \E name \in CheckboxKeys : HandleCheckbox(name)
  \/ HandleExport
  \/ ExportResolved
  \/ ExportRejected

Spec == Init /\ [][Next]_vars

(***************************************************************************)
(* What the mounted component renders in the current state.                *)
(***************************************************************************)
calc ==
  IF component = "PlotDiagramApp" THEN calculations(inputs)
  ELSE AppCalculations(inputs)

diagram ==
  IF component = "PlotDiagramApp" THEN PlotDiagramSVG(inputs, calc, elements)
  ELSE AppPlotDiagramSVG(inputs, calc)

\* an svg element is rendered, not the placeholder
drawn == component = "App" \/ ~InvalidExtent(inputs)

rectChildren ==
  IF ~drawn THEN <<>>
  ELSE IF component = "PlotDiagramApp" THEN RectChildren(inputs, elements)
  ELSE AppRectChildren(inputs)

IsChild(id) == \E i \in 1..Len(rectChildren) : rectChildren[i] = id

rectAttributes(id) ==
  IF component = "PlotDiagramApp" THEN RectAttributes(inputs, calc, id)
  ELSE AppRectAttributes(inputs, calc, id)

\* the state of the parking or staircase toggle
toggle(name) ==
  IF component = "PlotDiagramApp" THEN elements[name]
  ELSE IF name = "parking" THEN inputs.addParking ELSE inputs.addStaircase

initialToggle(name) ==
  IF component = "PlotDiagramApp" THEN InitialElements[name]
  ELSE IF name = "parking" THEN AppInitialInputs.addParking
  ELSE AppInitialInputs.addStaircase

initialInputs ==
  IF component = "PlotDiagramApp" THEN InitialInputs ELSE AppInitialInputs

\* a number that is not NaN and is >= 0
NonNegative(a) == a.k \in {"fin", "inf"} /\ a.s = 1

NonNegativeFinite(a) == a.k = "fin" /\ a.s = 1

Positive(a) == NonNegative(a) /\ ~IsZero(a)

ExactLe(a, b) == ExactCmp(a, b) <= 0

ExactAbsDiff(a, b) ==
  IF ExactCmp(a, b) >= 0 THEN ExactSub(a, b) ELSE ExactSub(b, a)

ExactMax(a, b) == IF ExactCmp(a, b) >= 0 THEN a ELSE b

ExactMin(a, b) == IF ExactCmp(a, b) >= 0 THEN b ELSE a

(***************************************************************************)
(* The claims.                                                             *)
(***************************************************************************)
\* the text of a negative number: "-" and then a digit
IsNegativeEntry(text) == Len(text) >= 2 /\ text[1] = "-" /\ IsDigit(text[2])

\* a text that does not start a number: empty, or starting with something
\* other than a digit, a sign or a point
IsNonNumericEntry(text) ==
  text = <<>> \/ ~(IsDigit(text[1]) \/ text[1] \in {"-", "+", "."})

\* the inputs after the number input name has reported the text value
inputsAfterChange(name, value) ==
  IF component = "PlotDiagramApp" THEN handleChange(inputs, name, value)
  ELSE AppHandleChange(inputs, name, value, "number", FALSE)

\* C1: after any sequence of field edits from the default inputs every
\* numeric field is a number >= 0 (never NaN, never negative), and in every
\* reachable state an edit of any field with a negative or non-numeric text
\* stores 0 in that field.
C1_FieldsNonNegative ==
  /\ \A f \in NumericKeySet : NonNegative(inputs[f])
  /\ \A f \in NumericKeySet : \A text \in EnteredTexts :
       (IsNegativeEntry(text) \/ IsNonNumericEntry(text))
         => inputsAfterChange(f, text)[f] = Zero

\* C1 witness: a field whose default is not 0 holds 0 after a text was
\* entered in it (every entered text that gives 0 is negative, empty or
\* non-numeric).
C1_Witness ==
  \E f \in NumericKeySet :
    /\ lastStored[f] = Zero
    /\ inputs[f] = Zero
    /\ initialInputs[f] # Zero
    /\ \A text \in EnteredTexts :
         ClampedNumber(text) = Zero
           => IsNegativeEntry(text) \/ IsNonNumericEntry(text)

\* the drawing extent is invalid: plot width <= 0 or plot length + road
\* width <= 0 (the fields are never negative, so <= 0 is = 0)
extentInvalid ==
  \/ ExactLe(inputs.plotWidth, Zero)
  \/ ExactLe(ExactAdd(inputs.plotLength, inputs.roadWidth), Zero)

\* C2: whenever the drawing extent is invalid, the PlotDiagramSVG of the
\* mounted component returns the placeholder: no svg, no rect, no scale.
C2_InvalidExtentGivesPlaceholder ==
  extentInvalid => diagram.tag = "div" /\ diagram.rects = <<>>

\* the real numbers plotWidth - setbackLeft - setbackRight and
\* plotLength - setbackFront - setbackBack
exactBuildableWidth ==
  ExactSub(ExactSub(inputs.plotWidth, inputs.setbackLeft), inputs.setbackRight)

exactBuildableLength ==
  ExactSub(ExactSub(inputs.plotLength, inputs.setbackFront), inputs.setbackBack)

\* C3: in every reachable state buildableWidth = max(0, plotWidth -
\* setbackLeft - setbackRight) and buildableLength = max(0, plotLength -
\* setbackFront - setbackBack), neither is negative, and the area built from
\* them (totalBUA = width * length * floors) is not negative.
C3_BuildableNeverNegative ==
  LET c == calc
  IN  /\ c.buildableWidth = ExactMax(Zero, exactBuildableWidth)
      /\ c.buildableLength = ExactMax(Zero, exactBuildableLength)
      /\ NonNegativeFinite(c.buildableWidth)
      /\ NonNegativeFinite(c.buildableLength)
      /\ NonNegativeFinite(c.totalBUA)

\* C3 witness: the side setbacks together exceed the plot width and the
\* buildable width is 0.
C3_Witness ==
  /\ ExactCmp(exactBuildableWidth, Zero) < 0
  /\ calc.buildableWidth = Zero
  /\ Positive(inputs.plotWidth)

\* C4: groundCoverage and floorAreaRatio are finite numbers >= 0, and when
\* the plot width or the plot length is 0 the plot area is 0 and both are 0.
C4_ZeroPlotAreaGuarded ==
  LET c == calc
  IN  /\ NonNegativeFinite(c.groundCoverage)
      /\ NonNegativeFinite(c.far)
      /\ (IsZero(inputs.plotWidth) \/ IsZero(inputs.plotLength))
           => /\ c.plotArea = Zero
              /\ c.groundCoverage = Zero
              /\ c.far = Zero

\* C4 witness: the plot width is 0 while the plot length is not.
C4_Witness ==
  /\ IsZero(inputs.plotWidth)
  /\ Positive(inputs.plotLength)
  /\ calc.groundCoverage = Zero

\* the double nearest to the finite real number x
Rounded(x) == RoundNearestEven(x.s, x.m, x.e)

\* the real number groundFloorArea = buildableWidth * buildableLength
exactGroundFloorArea(c) == ExactMul(c.buildableWidth, c.buildableLength)

\* the startup values of the fields the metrics read
metricsInputsAreDefaults ==
  \A f \in {"plotWidth", "plotLength", "setbackFront", "setbackBack",
            "setbackLeft", "setbackRight", "floors"} :
    inputs[f] = InitialInputs[f]

\* C5 as stated, over the real numbers: plotArea = W * L, totalBUA =
\* buildableWidth * buildableLength * floors and, when plotArea > 0,
\* groundCoverage = 100 * groundFloorArea / plotArea and
\* far = totalBUA / plotArea, exactly.
C5_MetricsAreTheRealQuotients ==
  LET c == calc
      g == exactGroundFloorArea(c)
  IN  /\ c.plotArea = ExactMul(inputs.plotWidth, inputs.plotLength)
      /\ c.totalBUA = ExactMul(g, inputs.floors)
      /\ Positive(c.plotArea) =>
           /\ ExactMul(c.groundCoverage, c.plotArea) = ExactMul(Num(100), g)
           /\ ExactMul(c.far, c.plotArea) = c.totalBUA

\* C5 (amended): plotArea, groundFloorArea and totalBUA are the products
\* W * L, buildableWidth * buildableLength and groundFloorArea * floors
\* rounded to a double; when plotArea > 0, groundCoverage is within the
\* relative error 2^-52 of 100 * groundFloorArea / plotArea and far within
\* 2^-53 of totalBUA / plotArea; and the startup values of width, length,
\* setbacks and floors give exactly 1800, 20 x 45, 4500, 50 and 2.5.
C5_MetricsWithinRounding ==
  LET c    == calc
      g    == Rounded(exactGroundFloorArea(c))
      g100 == ExactMul(Num(100), g)
  IN  /\ c.plotArea = Rounded(ExactMul(inputs.plotWidth, inputs.plotLength))
      /\ c.totalBUA = Rounded(ExactMul(g, inputs.floors))
      /\ Positive(c.plotArea) =>
           /\ ExactLe(ExactAbsDiff(ExactMul(c.groundCoverage, c.plotArea), g100),
                      ExactMul(Pow2(-52), g100))
           /\ ExactLe(ExactAbsDiff(ExactMul(c.far, c.plotArea), c.totalBUA),
                      ExactMul(Pow2(-53), c.totalBUA))
      /\ metricsInputsAreDefaults =>
           /\ c.plotArea = Num(1800)
           /\ c.buildableWidth = Num(20)
           /\ c.buildableLength = Num(45)
           /\ g = Num(900)
           /\ c.totalBUA = Num(4500)
           /\ c.groundCoverage = Num(50)
           /\ ExactAdd(c.far, c.far) = Num(5)

\* C5 witness: after an edit the plot area is positive and the ground
\* coverage is not the real quotient: it was rounded.
C5_Witness ==
  LET c == calc
  IN  /\ steps > 0
      /\ Positive(c.plotArea)
      /\ Positive(c.groundCoverage)
      /\ ExactMul(c.groundCoverage, c.plotArea)
           # ExactMul(Num(100), exactGroundFloorArea(c))

\* plot width > 0 and plot length + road width > 0
extentValid ==
  /\ Positive(inputs.plotWidth)
  /\ Positive(ExactAdd(inputs.plotLength, inputs.roadWidth))

\* the larger and the smaller of plotWidth and plotLength + roadWidth
maxExtent == ExactMax(totalWidthFt(inputs), totalHeightFt(inputs))

minExtent == ExactMin(totalWidthFt(inputs), totalHeightFt(inputs))

\* C6 as stated: whenever the extent is valid, scale * max(plotWidth,
\* plotLength + roadWidth) = 500 and scale * min(plotWidth, plotLength +
\* roadWidth) <= 500.
C6_ScaleReachesMaxSizeExactly ==
  extentValid =>
    LET sc == scale(inputs)
    IN  /\ FMul(sc, maxExtent) = Num(MAX_SIZE)
        /\ ExactLe(FMul(sc, minExtent), Num(MAX_SIZE))

\* C6 (amended): whenever the extent is valid, the scale is the double
\* 500 / max(plotWidth, plotLength + roadWidth) of the current inputs,
\* scale * max differs from 500 by at most 2^-44 and scale * min is at most
\* 500 + 2^-44.
C6_ScaleReachesMaxSizeWithinRounding ==
  extentValid =>
    LET sc == scale(inputs)
    IN  /\ sc = FDiv(Num(MAX_SIZE), maxExtent)
        /\ ExactLe(ExactAbsDiff(FMul(sc, maxExtent), Num(MAX_SIZE)), Pow2(-44))
        /\ ExactLe(FMul(sc, minExtent), ExactAdd(Num(MAX_SIZE), Pow2(-44)))

\* C6 witness: after an edit the extent is valid and scale * max is not 500.
C6_Witness ==
  /\ steps > 0
  /\ extentValid
  /\ FMul(scale(inputs), maxExtent) # Num(MAX_SIZE)

\* C7: a parking rect is among the rect children only if the parking toggle
\* is on and parkingWidth > 0 and parkingLength > 0; a staircase rect only
\* if the staircase toggle is on and its width and length are > 0.
C7_OverlaysNeedToggleAndSize ==
  LET ids == rectChildren
      has(id) == \E i \in 1..Len(ids) : ids[i] = id
  IN  /\ has("parking") =>
           LET r == rectAttributes("parking")
           IN  /\ toggle("parking")
               /\ Positive(inputs.parkingWidth)
               /\ Positive(inputs.parkingLength)
               /\ Positive(r.width)
               /\ Positive(r.height)
      /\ has("staircase") =>
           LET r == rectAttributes("staircase")
           IN  /\ toggle("staircase")
               /\ Positive(r.width)
               /\ Positive(r.height)
               /\ component = "App" =>
                    Positive(inputs.stairWidth) /\ Positive(inputs.stairLength)

\* C7 witness: a diagram is drawn with the parking toggle on and parking
\* width 0, and it has no parking rect.
C7_Witness ==
  /\ drawn
  /\ IsChild("buildable")
  /\ toggle("parking")
  /\ IsZero(inputs.parkingWidth)
  /\ ~IsChild("parking")

\* every html2canvas call is pending, resolved into one download or
\* rejected; every download has the fixed file name
C8_Accounting ==
  /\ Len(downloads) + rejections + pending = rasterRequests
  /\ rasterRequests <= exportCalls
  /\ \A i \in 1..Len(downloads) : downloads[i] = FILENAME

\* what one step may do to the exports
C8_Step ==
  /\ exportCalls' # exportCalls =>
       /\ exportCalls' = exportCalls + 1
       /\ downloads' = downloads
       /\ IF diagramRef = "null"
            THEN rasterRequests' = rasterRequests /\ pending' = pending
            ELSE rasterRequests' = rasterRequests + 1 /\ pending' = pending + 1
  /\ rasterRequests' # rasterRequests => exportCalls' # exportCalls
  /\ downloads' # downloads =>
       /\ pending > 0
       /\ pending' = pending - 1
       /\ rasterRequests' = rasterRequests
       /\ downloads' = Append(downloads, FILENAME)
  /\ rejections' # rejections =>
       /\ rejections' = rejections + 1
       /\ downloads' = downloads
  /\ exportVars' # exportVars =>
       UNCHANGED <<component, inputs, elements, diagramRef, lastStored, flips>>

\* C8: a call of handleExport while diagramRef.current is null issues no
\* html2canvas call and no download; any other call issues exactly one
\* html2canvas call; a download happens only when a pending html2canvas
\* call resolves, under the name "plot-diagram.png"; a rejected call gives
\* no download; and no step of an export changes the inputs, the toggles or
\* the mounted component.
C8_ExportContract == []C8_Accounting /\ [][C8_Step]_vars

\* C8 witness: of two calls of handleExport the one made with the surface
\* missing issued nothing, and the other was resolved into one download.
C8_Witness ==
  /\ exportCalls = 2
  /\ rasterRequests = 1
  /\ pending = 0
  /\ downloads = <<FILENAME>>

\* C9: whenever the extent is valid, the buildable rect lies inside the
\* plot rect: 0 <= x, 0 <= y, x + width <= plot width and y + height <=
\* plot height, in the real numbers.
C9_BuildableInsidePlot ==
  extentValid =>
    LET b == rectAttributes("buildable")
        p == rectAttributes("plot")
    IN  /\ NonNegativeFinite(b.x) /\ NonNegativeFinite(b.y)
        /\ NonNegativeFinite(b.width) /\ NonNegativeFinite(b.height)
        /\ ExactLe(ExactAdd(b.x, b.width), ExactAdd(p.x, p.width))
        /\ ExactLe(ExactAdd(b.y, b.height), ExactAdd(p.y, p.height))

\* the next elements, or the next inputs of App, after a click on toggle t
togglesAfterClick(t, u) ==
  IF component = "PlotDiagramApp" THEN handleToggle(elements, t)[u]
  ELSE LET key(n) == IF n = "parking" THEN "addParking" ELSE "addStaircase"
       IN  AppHandleChange(inputs, key(t), "on", "checkbox", ~inputs[key(t)])[key(u)]

\* C10: in every reachable state an edit of a field changes no other key of
\* the inputs, a click on a toggle flips it and changes neither the other
\* toggle nor a field; every numeric field holds the clamped value of the
\* last text entered in it, or its default if none was, every toggle is its
\* default flipped once per click, and the keys of App that no control
\* edits keep their defaults.
C10_HandlersChangeOnlyWhatTheyName ==
  /\ \A f \in NumericKeySet : \A text \in EnteredTexts :
       LET after == inputsAfterChange(f, text)
       IN  /\ DOMAIN after = DOMAIN inputs
           /\ after[f] = ClampedNumber(text)
           /\ \A g \in DOMAIN inputs \ {f} : after[g] = inputs[g]
  /\ \A t \in ElementKeys : \A u \in ElementKeys :
       togglesAfterClick(t, u) = IF u = t THEN ~toggle(u) ELSE toggle(u)
  /\ \A f \in NumericKeySet :
       inputs[f] = IF lastStored[f] = Never THEN initialInputs[f]
                   ELSE lastStored[f]
  /\ \A t \in ElementKeys : toggle(t) = (initialToggle(t) # (flips[t] = 1))
  /\ component = "App" => \A k \in StairKeys : inputs[k] = AppInitialInputs[k]

\* C10 witness: two fields were edited and both hold what was entered, not
\* their defaults.
C10_Witness ==
  \E f \in NumericKeySet : \E g \in NumericKeySet \ {f} :
    /\ lastStored[f] # Never /\ inputs[f] = lastStored[f]
    /\ inputs[f] # initialInputs[f]
    /\ lastStored[g] # Never /\ inputs[g] = lastStored[g]
    /\ inputs[g] # initialInputs[g]

=============================================================================
